---- MODULE Spec2Model ----
(***************************************************************************)
(* The guide dispatcher of the Telex agent builder                         *)
(* (src/src/mastra/tools/telex-tool.ts, the first telexGuideTool of the    *)
(* file): execute lower-cases the query text and the language hint and     *)
(* walks a fixed cascade of substring tests; the first test that matches   *)
(* picks the guide that is returned.                                       *)
(*                                                                         *)
(* Strings are TLA+ strings; toLowerCase, includes, charAt and slice are   *)
(* computed character by character.  A guide's markdown body is kept as    *)
(* its lead line, its "##"/"###" headings and its npm/pip command lines,   *)
(* an example as its non-blank lines; titles, categories and resource      *)
(* links are verbatim.                                                     *)
(***************************************************************************)
EXTENDS Integers, Sequences, FiniteSets, TLC

VARIABLES
    pc,       \* "called": execute has been invoked; "returned": it has returned
    context,  \* the tool call's input: [query, language]
    result,   \* <<>> until execute returns, then <<guide>>
    history,  \* the completed calls, oldest first: [context, guide]
    wfStatus, \* a run of telexAgentWorkflow: "idle", "running", "success", "failed"
    wfInput,  \* the run's input data: <<>> when none, else <<[query]>>
    wfAt,     \* the place in the chain of the step that runs next
    wfData,   \* the input data of the step that runs next: <<>> or <<data>>
    stepLog,  \* the steps run, oldest first: [step, inputData, threw, error, output]
    invocations, \* per concurrent caller: [pc, context, promise, received]
    olderCall, \* the same call made to the older telexGuideTool: [pc, result]
    env,      \* process.env: [LIBSQL_URL, LIBSQL_AUTH_TOKEN], <<>> when unset
    stores    \* <<>> until the modules are loaded, then <<[storage, memory]>>

toolVars == <<pc, context, result, history>>
workflowVars == <<wfStatus, wfInput, wfAt, wfData, stepLog>>
startupVars == <<env, stores>>
vars == <<pc, context, result, history, wfStatus, wfInput, wfAt, wfData, stepLog,
          invocations, olderCall, env, stores>>

(***************************************************************************)
(* Bounds of the checked input space.                                      *)
(***************************************************************************)
\* a query text is made of at most MaxWords words of Vocabulary
MaxWords == 2
\* a session makes at most MaxCalls calls of the tool
MaxCalls == 3
\* NumCallers callers invoke the tool concurrently
NumCallers == 2

(***************************************************************************)
(* JavaScript string operations.                                           *)
(***************************************************************************)
UpperCaseLetters == "ABCDEFGHIJKLMNOPQRSTUVWXYZ"
LowerCaseLetters == "abcdefghijklmnopqrstuvwxyz"

\* the character of `to` at the place c has in `from`; c when it has none
mapChar(c, from, to) ==
    IF \E i \in 1..Len(from) : SubSeq(from, i, i) = c
    THEN LET i == CHOOSE i \in 1..Len(from) : SubSeq(from, i, i) = c
         IN  SubSeq(to, i, i)
    ELSE c

RECURSIVE mapString(_, _, _)
mapString(s, from, to) ==
    IF s = "" THEN ""
    ELSE mapChar(Head(s), from, to) \o mapString(Tail(s), from, to)

\* String.prototype.toLowerCase
toLowerCase(s) == mapString(s, UpperCaseLetters, LowerCaseLetters)

\* String.prototype.toUpperCase
toUpperCase(s) == mapString(s, LowerCaseLetters, UpperCaseLetters)

\* String.prototype.includes
includes(s, sub) ==
    \E i \in 1..(Len(s) - Len(sub) + 1) : SubSeq(s, i, i + Len(sub) - 1) = sub

\* String.prototype.charAt, position counted from 0; "" past the end
charAt(s, pos) == IF pos < Len(s) THEN SubSeq(s, pos + 1, pos + 1) ELSE ""

\* String.prototype.slice(start), start counted from 0
slice(s, start) == SubSeq(s, start + 1, Len(s))

\* a language hint is optional: <<>> when absent, <<hint>> when given
NoLanguage == <<>>

\* context.language || ""
languageOrEmpty(language) == IF language = NoLanguage THEN "" ELSE language[1]

\* the categories of an output schema that lacks the protocol category
CategoriesWithoutProtocol == {"mastra", "integration", "workflow", "general"}

\* the categories the output schema accepts
Categories == {"mastra", "integration", "workflow", "general", "a2a-protocol"}

(***************************************************************************)
(* The guides.                                                             *)
(***************************************************************************)
\* a protocol guide whose resource link has lost its url
getA2AProtocolGuideUnlinked ==
    [title |-> "Understanding the A2A (Agent-to-Agent) Protocol",
     category |-> "a2a-protocol",
     content |-> <<"The **A2A (Agent-to-Agent) Protocol** is a standardized communication format that allows AI agents to work together seamlessly, regardless of the language or framework they're built with.">>,
     example |-> <<>>,
     resources |-> <<[title |-> "What is A2A? Understanding the Agent-to-Agent Protocol",
                    url |-> "",
                    description |-> "Deep dive into A2A protocol fundamentals and use cases"]>>]

getA2AProtocolGuide ==
    [title |-> "Understanding the A2A (Agent-to-Agent) Protocol",
     category |-> "a2a-protocol",
     content |-> <<"The **A2A (Agent-to-Agent) Protocol** is a standardized communication format that allows AI agents to work together seamlessly, regardless of the language or framework they're built with.",
                 "## What is A2A?",
                 "## Why A2A Matters",
                 "## Core Concepts",
                 "### 1. Message Structure",
                 "### 2. Response Format",
                 "### 3. Workflow Integration",
                 "## Implementation Patterns",
                 "## Next Steps">>,
     example |-> <<>>,
     resources |-> <<[title |-> "What is A2A? Understanding the Agent-to-Agent Protocol",
                    url |-> "https://fynix.dev/blog/what-is-a2a",
                    description |-> "Deep dive into A2A protocol fundamentals and use cases"]>>]

\* the setup variant of getPythonFastAPIGuide
pythonSetupGuide ==
    [title |-> "Building A2A Agents with Python and FastAPI",
     category |-> "integration",
     content |-> <<"Python developers can build A2A-compatible agents using **FastAPI** - a modern, fast web framework perfect for building agent APIs.",
            "## Quick Setup",
            "### 1. Install Dependencies",
            "pip install fastapi uvicorn pydantic",
            "pip install openai anthropic google-generativeai",
            "### 2. Create Your Agent Structure",
            "### 3. Run Your Agent",
            "### 4. Deploy to Production",
            "### 5. Connect to Telex",
            "## Best Practices",
            "## Testing Your Agent">>,
     example |-> <<<<"# Complete FastAPI A2A Agent Example",
             "from fastapi import FastAPI",
             "from pydantic import BaseModel",
             "from typing import Optional, List, Dict, Any",
             "import os",
             "app = FastAPI()",
             "class A2AMessage(BaseModel):",
             "message: str",
             "context: Optional[Dict[str, Any]] = None",
             "class A2AResponse(BaseModel):",
             "reply: str",
             "actions: List[Dict[str, Any]] = []",
             "@app.post(\"/a2a/agent/assistant\")",
             "async def agent_endpoint(msg: A2AMessage):",
             "try:",
             "# Your AI logic here",
             "reply = f\"You said: {msg.message}\"",
             "return A2AResponse(",
             "reply=reply,",
             "actions=[]",
             ")",
             "except Exception as e:",
             "return A2AResponse(",
             "reply=f\"Error: {str(e)}\",",
             "actions=[]",
             ")">>>>,
     resources |-> <<[title |-> "Building A2A Protocol Agents with Python and FastAPI",
               url |-> "https://fynix.dev/blog/a2a-python-fastapi",
               description |-> "Complete tutorial with production-ready examples"],
              [title |-> "What is A2A? Understanding the Agent-to-Agent Protocol",
               url |-> "https://fynix.dev/blog/what-is-a2a",
               description |-> "Learn the protocol that powers agent communication"]>>]

\* the overview variant of getPythonFastAPIGuide
pythonOverviewGuide ==
    [title |-> "Python FastAPI + Telex Integration Overview",
     category |-> "integration",
     content |-> <<"Build production-ready A2A agents with Python and FastAPI.">>,
     example |-> <<>>,
     resources |-> <<[title |-> "Building A2A Protocol Agents with Python and FastAPI",
               url |-> "https://fynix.dev/blog/a2a-python-fastapi",
               description |-> "Step-by-step guide with code examples"]>>]

getPythonFastAPIGuide(query) ==
    LET q == toLowerCase(query)
    IN  IF includes(q, "setup") \/ includes(q, "install") \/ includes(q, "start")
        THEN pythonSetupGuide
        ELSE pythonOverviewGuide

\* the setup variant of getMastraIntegrationGuide
mastraSetupGuide ==
    [title |-> "Setting Up Mastra for Telex Integration",
     category |-> "mastra",
     content |-> <<"Mastra is the easiest way for TypeScript developers to build A2A-compatible agents for Telex.im.",
            "## Installation & Setup",
            "### 1. Create New Mastra Project",
            "npm create mastra@latest -y",
            "### 2. Install Dependencies",
            "npm install",
            "### 3. Configure Environment Variables",
            "### 4. Project Structure",
            "### 5. Create Your First Agent",
            "### 6. Start Development Server",
            "npm run dev",
            "### 7. Test Your Agent",
            "### 8. Deploy Your Agent",
            "npm run build",
            "npm run build",
            "### 9. Connect to Telex",
            "## Requirements",
            "## Next Steps">>,
     example |-> <<<<"{",
             "\"scripts\": {",
             "\"dev\": \"mastra dev\",",
             "\"build\": \"mastra build\",",
             "\"start\": \"mastra start\"",
             "},",
             "\"dependencies\": {",
             "\"@mastra/core\": \"latest\",",
             "\"zod\": \"^4\"",
             "},",
             "\"devDependencies\": {",
             "\"typescript\": \"latest\",",
             "\"@types/node\": \"latest\"",
             "}",
             "}">>>>,
     resources |-> <<[title |-> "Building Intelligent Workflows: Integrating Mastra A2A Protocol with Telex",
               url |-> "https://fynix.dev/blog/telex-x-mastra",
               description |-> "Complete guide to Mastra + Telex integration"],
              [title |-> "What is A2A? Understanding the Agent-to-Agent Protocol",
               url |-> "https://fynix.dev/blog/what-is-a2a",
               description |-> "Learn the protocol powering Mastra's agent communication"]>>]

\* the overview variant of getMastraIntegrationGuide
mastraOverviewGuide ==
    [title |-> "Mastra Framework Overview",
     category |-> "mastra",
     content |-> <<"Mastra is a TypeScript-first framework for building production-ready AI agents with built-in A2A protocol support.",
            "## Key Features",
            "## For Telex Integration">>,
     example |-> <<>>,
     resources |-> <<[title |-> "Building Intelligent Workflows: Integrating Mastra A2A Protocol with Telex",
               url |-> "https://fynix.dev/blog/telex-x-mastra",
               description |-> "Official integration guide"]>>]

\* getMastraIntegrationGuide without the keyword "start"
getMastraIntegrationGuideNoStart(query) ==
    LET q == toLowerCase(query)
    IN  IF \/ includes(q, "setup")
           \/ includes(q, "install")
           \/ includes(q, "initialize")
        THEN mastraSetupGuide
        ELSE mastraOverviewGuide

getMastraIntegrationGuide(query) ==
    LET q == toLowerCase(query)
    IN  IF \/ includes(q, "setup")
           \/ includes(q, "install")
           \/ includes(q, "initialize")
           \/ includes(q, "start")
        THEN mastraSetupGuide
        ELSE mastraOverviewGuide

\* the generic guide, its title templated with languageName
genericIntegrationGuide(languageName, language) ==
    [title |-> "Building a " \o languageName \o " Agent for Telex.im",
     category |-> "integration",
     content |-> <<"Build an A2A-compatible agent in " \o language
                   \o " by implementing a REST API that follows the A2A protocol.",
                 "## Implementation Steps",
                 "### 1. Create an HTTP Server",
                 "### 2. Implement A2A Endpoint",
                 "### 3. Handle Request Format",
                 "### 4. Return Response Format",
                 "### 5. Deploy Your Service",
                 "### 6. Connect to Telex",
                 "## Best Practices",
                 "## Testing">>,
     example |-> <<>>,
     resources |-> <<[title |-> "What is A2A? Understanding the Agent-to-Agent Protocol",
                    url |-> "https://fynix.dev/blog/what-is-a2a",
                    description |-> "Protocol specification and implementation patterns"]>>]

\* the title templated with the language as it was passed, not capitalised
getGenericIntegrationGuidePlain(language) ==
    genericIntegrationGuide(language, language)

getGenericIntegrationGuide(language) ==
    genericIntegrationGuide(toUpperCase(charAt(language, 0)) \o slice(language, 1),
                            language)

getWorkflowExample ==
    [title |-> "Sample Telex Workflow Configurations",
     category |-> "workflow",
     content |-> <<"Here are example workflow configurations for connecting different types of agents to Telex.im.",
                 "## Mastra Agent Workflow",
                 "## Python/FastAPI Agent Workflow",
                 "## Multi-Agent Workflow",
                 "## Key Configuration Fields",
                 "## Testing Your Workflow">>,
     example |-> <<<<"{",
                  "\"type\": \"a2a/mastra-a2a-node\",",
                  "\"url\": \"https://your-deployed-agent.com/a2a/agent/agentName\",",
                  "\"position\": [400, 200]",
                  "}">>>>,
     resources |-> <<[title |-> "Building Intelligent Workflows: Integrating Mastra A2A Protocol with Telex",
                    url |-> "https://fynix.dev/blog/telex-x-mastra",
                    description |-> "Deep dive into workflow configuration and best practices"]>>]

\* the detailed variant of getTelexIntegrationGuide
telexConnectGuide ==
    [title |-> "Connecting Your Agent to Telex.im",
     category |-> "integration",
     content |-> <<"Connect any A2A-compatible agent to Telex.im workflows and enable agent-to-agent collaboration.",
            "## Integration Overview",
            "## Steps to Integrate",
            "### 1. Build Your Agent",
            "### 2. Deploy Your Agent",
            "### 3. Join Telex Organization",
            "### 4. Create Workflow in Telex",
            "### 5. Connect to a Channel",
            "### 6. Test Your Integration",
            "### 7. Iterate and Improve",
            "## Advanced Features",
            "### Multi-Agent Workflows",
            "### Context Management",
            "### Error Handling",
            "## Deployment Best Practices",
            "## Troubleshooting",
            "## Need Help?">>,
     example |-> <<>>,
     resources |-> <<[title |-> "Building Intelligent Workflows: Integrating Mastra A2A Protocol with Telex",
               url |-> "https://fynix.dev/blog/telex-x-mastra",
               description |-> "Complete integration guide with deployment examples"],
              [title |-> "What is A2A? Understanding the Agent-to-Agent Protocol",
               url |-> "https://fynix.dev/blog/what-is-a2a",
               description |-> "Learn the protocol that powers Telex agent communication"]>>]

\* the overview variant of getTelexIntegrationGuide
telexOverviewGuide ==
    [title |-> "Telex.im Integration Overview",
     category |-> "integration",
     content |-> <<"Telex.im connects AI agents through the **A2A (Agent-to-Agent) Protocol**, enabling seamless collaboration between agents built in any language.",
            "## Quick Integration Steps",
            "## Agent Node Types",
            "## Monitoring & Debugging">>,
     example |-> <<>>,
     resources |-> <<[title |-> "Building Intelligent Workflows: Integrating Mastra A2A Protocol with Telex",
               url |-> "https://fynix.dev/blog/telex-x-mastra",
               description |-> "Step-by-step integration tutorial"],
              [title |-> "Building A2A Protocol Agents with Python and FastAPI",
               url |-> "https://fynix.dev/blog/a2a-python-fastapi",
               description |-> "Python-specific implementation guide"],
              [title |-> "What is A2A? Understanding the Agent-to-Agent Protocol",
               url |-> "https://fynix.dev/blog/what-is-a2a",
               description |-> "Protocol fundamentals and architecture"]>>]

\* getTelexIntegrationGuide without the keyword "deploy"
getTelexIntegrationGuideNoDeploy(query) ==
    LET q == toLowerCase(query)
    IN  IF \/ includes(q, "connect")
           \/ includes(q, "integrate")
           \/ includes(q, "telex")
           \/ includes(q, "workflow")
        THEN telexConnectGuide
        ELSE telexOverviewGuide

getTelexIntegrationGuide(query) ==
    LET q == toLowerCase(query)
    IN  IF \/ includes(q, "connect")
           \/ includes(q, "integrate")
           \/ includes(q, "deploy")
           \/ includes(q, "telex")
           \/ includes(q, "workflow")
        THEN telexConnectGuide
        ELSE telexOverviewGuide

\* execute without its default branch: nothing is returned
defaultResponseMissing ==
    [title |-> "", category |-> "", content |-> <<>>, example |-> <<>>,
     resources |-> <<>>]

\* the default response of execute
defaultResponse ==
    [title |-> "Getting Started with Telex Agent Builder",
     category |-> "general",
     content |-> <<"You can build agents for Telex.im in any language using the **A2A (Agent-to-Agent) Protocol**.",
                 "## Quick Start by Language",
                 "### TypeScript/JavaScript Developers",
                 "### Python Developers",
                 "### Other Languages (Go, PHP, Java, Rust, C#)",
                 "## Get Started">>,
     example |-> <<>>,
     resources |-> <<[title |-> "What is A2A? Understanding the Agent-to-Agent Protocol",
                    url |-> "https://fynix.dev/blog/what-is-a2a",
                    description |-> "Learn the fundamentals of how agents communicate with each other"],
                   [title |-> "Building Intelligent Workflows: Integrating Mastra A2A Protocol with Telex",
                    url |-> "https://fynix.dev/blog/telex-x-mastra",
                    description |-> "Complete guide for TypeScript/Mastra developers"],
                   [title |-> "Building A2A Protocol Agents with Python and FastAPI",
                    url |-> "https://fynix.dev/blog/a2a-python-fastapi",
                    description |-> "Step-by-step guide for Python developers"]>>]

(***************************************************************************)
(* The routing tests of execute, in the order execute makes them.          *)
(***************************************************************************)
\* A2A Protocol explanation
isA2AProtocolQuery(query) ==
    \/ includes(query, "a2a")
    \/ includes(query, "agent-to-agent")
    \/ includes(query, "protocol")

\* the Python test made on the language hint alone
isPythonQueryHintOnly(query, language) ==
    includes(language, "python")

\* the Python test made on the text alone
isPythonQueryTextOnly(query, language) ==
    \/ includes(query, "python")
    \/ includes(query, "fastapi")

\* Python/FastAPI specific
isPythonQuery(query, language) ==
    \/ includes(language, "python")
    \/ includes(query, "python")
    \/ includes(query, "fastapi")

\* the TypeScript/Mastra test without the test for javascript
isMastraQueryTypeScriptOnly(query, language) ==
    \/ includes(language, "typescript")
    \/ includes(query, "mastra")

\* TypeScript/Mastra
isMastraQuery(query, language) ==
    \/ includes(language, "typescript")
    \/ includes(language, "javascript")
    \/ includes(query, "mastra")

\* the allow-list of the other languages
OtherLanguages == <<"go", "java", "php", "rust", "c#", "csharp">>

\* the allow-list test with includes turned around and no guard
isOtherLanguageReversed(language) ==
    \E i \in 1..Len(OtherLanguages) : includes(OtherLanguages[i], language)

\* the allow-list test by equality
isOtherLanguageExact(language) ==
    /\ language # ""
    /\ \E i \in 1..Len(OtherLanguages) : language = OtherLanguages[i]

\* Other languages
isOtherLanguage(language) ==
    /\ language # ""
    /\ \E i \in 1..Len(OtherLanguages) : includes(language, OtherLanguages[i])

\* Workflow/JSON examples
isWorkflowQuery(query) ==
    \/ includes(query, "workflow")
    \/ includes(query, "json")
    \/ includes(query, "example")

\* the integration test with a keyword that getTelexIntegrationGuide does
\* not know
isTelexQueryWithSetup(query) ==
    \/ includes(query, "connect")
    \/ includes(query, "integrate")
    \/ includes(query, "telex")
    \/ includes(query, "setup")

\* Telex integration
isTelexQuery(query) ==
    \/ includes(query, "connect")
    \/ includes(query, "integrate")
    \/ includes(query, "telex")

\* execute with the Python test made before the protocol test
routePythonFirst(query, language) ==
    IF isPythonQuery(query, language) THEN getPythonFastAPIGuide(query)
    ELSE IF isA2AProtocolQuery(query) THEN getA2AProtocolGuide
    ELSE IF isMastraQuery(query, language) THEN getMastraIntegrationGuide(query)
    ELSE IF isOtherLanguage(language) THEN getGenericIntegrationGuide(language)
    ELSE IF isWorkflowQuery(query) THEN getWorkflowExample
    ELSE IF isTelexQuery(query) THEN getTelexIntegrationGuide(query)
    ELSE defaultResponse

\* execute with the workflow test made before the language tests
routeWorkflowFirst(query, language) ==
    IF isA2AProtocolQuery(query) THEN getA2AProtocolGuide
    ELSE IF isWorkflowQuery(query) THEN getWorkflowExample
    ELSE IF isPythonQuery(query, language) THEN getPythonFastAPIGuide(query)
    ELSE IF isMastraQuery(query, language) THEN getMastraIntegrationGuide(query)
    ELSE IF isOtherLanguage(language) THEN getGenericIntegrationGuide(language)
    ELSE IF isTelexQuery(query) THEN getTelexIntegrationGuide(query)
    ELSE defaultResponse

\* execute with the Telex integration test made before the workflow test
routeTelexFirst(query, language) ==
    IF isA2AProtocolQuery(query) THEN getA2AProtocolGuide
    ELSE IF isPythonQuery(query, language) THEN getPythonFastAPIGuide(query)
    ELSE IF isMastraQuery(query, language) THEN getMastraIntegrationGuide(query)
    ELSE IF isOtherLanguage(language) THEN getGenericIntegrationGuide(language)
    ELSE IF isTelexQuery(query) THEN getTelexIntegrationGuide(query)
    ELSE IF isWorkflowQuery(query) THEN getWorkflowExample
    ELSE defaultResponse

\* execute with the Mastra test made before the Python test
routeMastraFirst(query, language) ==
    IF isA2AProtocolQuery(query) THEN getA2AProtocolGuide
    ELSE IF isMastraQuery(query, language) THEN getMastraIntegrationGuide(query)
    ELSE IF isPythonQuery(query, language) THEN getPythonFastAPIGuide(query)
    ELSE IF isOtherLanguage(language) THEN getGenericIntegrationGuide(language)
    ELSE IF isWorkflowQuery(query) THEN getWorkflowExample
    ELSE IF isTelexQuery(query) THEN getTelexIntegrationGuide(query)
    ELSE defaultResponse

\* the cascade of execute over the lower-cased query and language: the
\* first test that holds picks the guide
route(query, language) ==
    IF isA2AProtocolQuery(query) THEN getA2AProtocolGuide
    ELSE IF isPythonQuery(query, language) THEN getPythonFastAPIGuide(query)
    ELSE IF isMastraQuery(query, language) THEN getMastraIntegrationGuide(query)
    ELSE IF isOtherLanguage(language) THEN getGenericIntegrationGuide(language)
    ELSE IF isWorkflowQuery(query) THEN getWorkflowExample
    ELSE IF isTelexQuery(query) THEN getTelexIntegrationGuide(query)
    ELSE defaultResponse

\* execute handing the language hint as it was given, not lower-cased, to
\* the generic guide
executeRawLanguage(ctx) ==
    LET query == toLowerCase(ctx.query)
        language == toLowerCase(languageOrEmpty(ctx.language))
    IN  IF /\ ~isA2AProtocolQuery(query)
           /\ ~isPythonQuery(query, language)
           /\ ~isMastraQuery(query, language)
           /\ isOtherLanguage(language)
        THEN getGenericIntegrationGuide(ctx.language[1])
        ELSE route(query, language)

\* execute taking the query text as the language when no hint is given
executeHintFromText(ctx) ==
    LET query == toLowerCase(ctx.query)
        language == toLowerCase(IF languageOrEmpty(ctx.language) = ""
                                THEN ctx.query
                                ELSE ctx.language[1])
    IN  route(query, language)

\* execute keeping the last language hint it was given for the calls that
\* give none
executeStickyLanguage(ctx) ==
    LET given == {i \in 1..Len(history) : languageOrEmpty(history[i].context.language) # ""}
        last == IF given = {} THEN ""
                ELSE history[CHOOSE i \in given : \A j \in given : j <= i].context.language[1]
        query == toLowerCase(ctx.query)
        language == toLowerCase(IF languageOrEmpty(ctx.language) = ""
                                THEN last
                                ELSE ctx.language[1])
    IN  route(query, language)

\* telexGuideTool.execute
execute(ctx) ==
    LET query == toLowerCase(ctx.query)
        language == toLowerCase(languageOrEmpty(ctx.language))
    IN  route(query, language)

(***************************************************************************)
(* The older telexGuideTool, the second one in the file.  Its guides carry *)
(* no resource links.                                                      *)
(***************************************************************************)
\* the categories the older output schema accepts
CategoriesOlder == {"mastra", "integration", "workflow", "general"}

\* the guide of the older dispatcher when no branch matches
defaultResponseOlder ==
    [title |-> "Getting Started with Telex Agent Builder",
     category |-> "general",
     content |-> <<"You can build agents for Telex.im in any language.">>,
     example |-> <<>>]

\* the setup variant of the older getMastraIntegrationGuide
mastraSetupGuideOlder ==
    [title |-> "Setting Up Mastra Locally",
     category |-> "mastra",
     content |-> <<"Mastra helps you build, evaluate, and deploy AI agents easily.">>,
     example |-> <<<<"{",
                     "\"scripts\": {",
                     "\"dev\": \"mastra dev\",",
                     "\"build\": \"mastra build\"",
                     "},",
                     "\"dependencies\": {",
                     "\"@mastra/core\": \"latest\",",
                     "\"zod\": \"^4\"",
                     "},",
                     "\"devDependencies\": {",
                     "\"typescript\": \"latest\",",
                     "\"@types/node\": \"latest\"",
                     "}",
                     "}">>>>]

\* the overview variant of the older getMastraIntegrationGuide
mastraOverviewGuideOlder ==
    [title |-> "Mastra Overview",
     category |-> "mastra",
     content |-> <<"Mastra is a TypeScript-first framework for building AI agents, tools, and evaluators.">>,
     example |-> <<>>]

\* the workflow example of the older variant
getWorkflowExampleOlder ==
    [title |-> "Sample Telex Workflow JSON",
     category |-> "workflow",
     content |-> <<"Here's a sample workflow connecting your Mastra agent to Telex.im:">>,
     example |-> <<<<"{",
                     "\"active\": true,",
                     "\"category\": \"developer-tools\",",
                     "\"description\": \"Workflow for the Telex Agent Builder assistant\",",
                     "\"id\": \"AB12x7z3qTelexAgent\",",
                     "\"name\": \"telex_agent_builder\",",
                     "\"nodes\": [",
                     "{",
                     "\"id\": \"telex_builder_node\",",
                     "\"name\": \"Telex Agent Builder\",",
                     "\"type\": \"a2a/mastra-a2a-node\",",
                     "\"typeVersion\": 1,",
                     "\"url\": \"https://telex-mastra.mastra.cloud/a2a/agent/telexAgentBuilder\",",
                     "\"position\": [700, 100]",
                     "}",
                     "],",
                     "\"settings\": { \"executionOrder\": \"v1\" },",
                     "\"short_description\": \"Helps developers build agents with Mastra and Telex.im\"",
                     "}">>>>]

\* the detailed variant of the older getTelexIntegrationGuide
telexConnectGuideOlder ==
    [title |-> "Integrating Mastra with Telex.im",
     category |-> "integration",
     content |-> <<"Mastra agents can integrate directly with **Telex.im** workflows through the **a2a/mastra-a2a-node** connector.",
                   "##  Steps to Integrate">>,
     example |-> <<<<"{",
                     "\"type\": \"a2a/mastra-a2a-node\",",
                     "\"url\": \"https://your-deployed-agent-url/a2a/agent/yourAgentName\"",
                     "}">>>>]

\* the overview variant of the older getTelexIntegrationGuide
telexOverviewGuideOlder ==
    [title |-> "Telex Integration Overview",
     category |-> "integration",
     content |-> <<"Telex.im supports AI agent integrations through \"a2a\" (agent-to-agent) workflows.">>,
     example |-> <<>>]

\* the older getMastraIntegrationGuide
getMastraIntegrationGuideOlder(query) ==
    LET q == toLowerCase(query)
    IN  IF \/ includes(q, "setup")
           \/ includes(q, "install")
           \/ includes(q, "initialize")
        THEN mastraSetupGuideOlder
        ELSE mastraOverviewGuideOlder

\* the older getGenericIntegrationGuide: the language goes into the title
\* as it is
getGenericIntegrationGuideOlder(language) ==
    [title |-> "Building a " \o language \o " Agent for Telex.im",
     category |-> "integration",
     content |-> <<"To integrate your " \o language \o " agent with Telex.im:">>,
     example |-> <<>>]

\* the older getTelexIntegrationGuide
getTelexIntegrationGuideOlder(query) ==
    LET q == toLowerCase(query)
    IN  IF \/ includes(q, "connect")
           \/ includes(q, "integrate")
           \/ includes(q, "telex")
           \/ includes(q, "workflow")
        THEN telexConnectGuideOlder
        ELSE telexOverviewGuideOlder

\* the older Mastra test
isMastraQueryOlder(query, language) ==
    \/ includes(language, "typescript")
    \/ includes(query, "mastra")

\* the older allow-list, "python" in it
OtherLanguagesOlder == <<"python", "go", "java", "php", "rust", "c#">>

\* the older allow-list test
isOtherLanguageOlder(language) ==
    /\ language # ""
    /\ \E i \in 1..Len(OtherLanguagesOlder) : includes(language, OtherLanguagesOlder[i])

\* the older workflow test
isWorkflowQueryOlder(query) ==
    \/ includes(query, "workflow")
    \/ includes(query, "json")

\* the older integration test
isTelexQueryOlder(query) ==
    \/ includes(query, "connect")
    \/ includes(query, "integrate")
    \/ includes(query, "telex")

\* the older cascade with the protocol branch of the richer one put first
routeOlderWithProtocol(query, language) ==
    IF isA2AProtocolQuery(query) THEN getA2AProtocolGuide
    ELSE IF isMastraQueryOlder(query, language) THEN getMastraIntegrationGuideOlder(query)
    ELSE IF isOtherLanguageOlder(language) THEN getGenericIntegrationGuideOlder(language)
    ELSE IF isWorkflowQueryOlder(query) THEN getWorkflowExampleOlder
    ELSE IF isTelexQueryOlder(query) THEN getTelexIntegrationGuideOlder(query)
    ELSE defaultResponseOlder

\* the cascade of the older execute
routeOlder(query, language) ==
    IF isMastraQueryOlder(query, language) THEN getMastraIntegrationGuideOlder(query)
    ELSE IF isOtherLanguageOlder(language) THEN getGenericIntegrationGuideOlder(language)
    ELSE IF isWorkflowQueryOlder(query) THEN getWorkflowExampleOlder
    ELSE IF isTelexQueryOlder(query) THEN getTelexIntegrationGuideOlder(query)
    ELSE defaultResponseOlder

\* the older telexGuideTool.execute
executeOlder(ctx) ==
    LET query == toLowerCase(ctx.query)
        language == toLowerCase(languageOrEmpty(ctx.language))
    IN  routeOlder(query, language)

(***************************************************************************)
(* The stores made when the modules are loaded.  A variable of process.env *)
(* is <<>> when it is not set and <<value>> when it is.                    *)
(***************************************************************************)
\* a || b over an environment variable and a string: b when the variable is
\* not set or empty
orElse(variable, default) ==
    IF variable = <<>> \/ variable[1] = "" THEN default ELSE variable[1]

\* the LibSQLStore given to the Mastra instance
mastraStorage == [url |-> ":memory:"]

\* the LibSQLStore of the Memory given to telexAgentBuilder
telexAgentBuilderMemory(environment) ==
    [url |-> orElse(environment.LIBSQL_URL, "file:./mastra.db"),
     authToken |-> environment.LIBSQL_AUTH_TOKEN]

(***************************************************************************)
(* The checked inputs.                                                     *)
(***************************************************************************)
\* every keyword the router or a sub-dispatcher tests, in the casing a user
\* may type, and words that are no keyword
Vocabulary ==
    <<"A2A", "agent-to-agent", "Protocol",
      "Python", "FastAPI", "Mastra",
      "workflow", "JSON", "example",
      "connect", "integrate", "Telex",
      "setup", "install", "initialize", "start", "deploy",
      "golang", "help">>

\* the words of Vocabulary at the places `places`, in order, one space apart
RECURSIVE join(_, _)
join(places, from) ==
    IF from > Len(Vocabulary) THEN ""
    ELSE LET rest == join(places, from + 1)
         IN  IF from \notin places THEN rest
             ELSE IF rest = "" THEN Vocabulary[from]
             ELSE Vocabulary[from] \o " " \o rest

\* the sets of at most n places of Vocabulary
RECURSIVE placesUpTo(_)
placesUpTo(n) ==
    IF n = 0 THEN {{}}
    ELSE LET fewer == placesUpTo(n - 1)
         IN  fewer \cup {p \cup {i} : p \in fewer, i \in 1..Len(Vocabulary)}

WordTexts == {join(places, 1) : places \in placesUpTo(MaxWords)}

\* the queries the documentation gives as examples
ExampleTexts ==
    {"how do I set up mastra", "what is mastra", "how do I begin",
     "xyzzy completely unrelated", "golang help",
     "How do I set up Mastra?", "I want to build an agent in Python",
     "How do I connect my agent to Telex?", "Show me a workflow example"}

Texts == WordTexts \cup ExampleTexts

Languages ==
    {NoLanguage, <<"">>, <<"python">>, <<"Python">>, <<"PYTHON">>,
     <<"TypeScript">>, <<"javascript">>, <<"JavaScript">>, <<"Go">>, <<"java">>, <<"PHP">>,
     <<"rust">>, <<"C#">>, <<"csharp">>, <<"golang">>, <<"GoLang">>,
     <<"Django">>, <<"ruby">>}

Contexts == [query : Texts, language : Languages]

\* the calls of a session that repeats calls
SessionContexts ==
    {[query |-> "help", language |-> <<"Go">>],
     [query |-> "help", language |-> NoLanguage],
     [query |-> "what is mastra", language |-> NoLanguage],
     [query |-> "A2A workflow", language |-> <<"python">>],
     [query |-> "Show me a workflow example", language |-> NoLanguage],
     [query |-> "How do I connect my agent to Telex?", language |-> <<"">>]}

(***************************************************************************)
(* The state machine: a call of the tool and its return.                   *)
(***************************************************************************)
Callers == 1..NumCallers

\* a caller that has not invoked the tool
IdleCaller ==
    [pc |-> "idle", context |-> [query |-> "", language |-> NoLanguage],
     promise |-> <<>>, received |-> <<>>]

\* no concurrent callers at work
NoInvocations == invocations = [c \in Callers |-> IdleCaller]

\* no run of the workflow
NoWorkflow ==
    /\ wfStatus = "idle"
    /\ wfInput = <<>>
    /\ wfAt = 1
    /\ wfData = <<>>
    /\ stepLog = <<>>

\* the environments the modules are loaded in
Envs ==
    [LIBSQL_URL : {<<>>, <<"">>, <<":memory:">>, <<"file:./mastra.db">>,
                   <<"libsql://telex.turso.io">>},
     LIBSQL_AUTH_TOKEN : {<<>>, <<"token">>}]

\* nothing is set in the environment
NoEnv == [LIBSQL_URL |-> <<>>, LIBSQL_AUTH_TOKEN |-> <<>>]

\* the loading of the modules is not followed
NoStartup ==
    /\ env = NoEnv
    /\ stores = <<>>

\* the older tool has not been called
NoOlderCall == olderCall = [pc |-> "idle", result |-> <<>>]

\* one call, with any checked input, has been made
Init ==
    /\ pc = "called"
    /\ context \in Contexts
    /\ result = <<>>
    /\ history = <<>>
    /\ NoWorkflow
    /\ NoInvocations
    /\ NoOlderCall
    /\ NoStartup

\* execute runs to its return
Execute ==
    /\ pc = "called"
    /\ LET guide == execute(context)
       IN  /\ result' = <<guide>>
           /\ history' = Append(history, [context |-> context, guide |-> guide])
    /\ pc' = "returned"
    /\ UNCHANGED context
    /\ UNCHANGED <<workflowVars, invocations, olderCall, startupVars>>

Next == Execute

Spec == Init /\ [][Next]_vars

\* a session: the first call of a session is made
InitSession ==
    /\ pc = "called"
    /\ context \in SessionContexts
    /\ result = <<>>
    /\ history = <<>>
    /\ NoWorkflow
    /\ NoInvocations
    /\ NoOlderCall
    /\ NoStartup

\* the session calls the tool again
Invoke(ctx) ==
    /\ pc = "returned"
    /\ Len(history) < MaxCalls
    /\ context' = ctx
    /\ result' = <<>>
    /\ pc' = "called"
    /\ UNCHANGED history
    /\ UNCHANGED <<workflowVars, invocations, olderCall, startupVars>>

NextSession ==
    \/ \E ctx \in SessionContexts : Invoke(ctx)
    \/ Execute

SpecSession == InitSession /\ [][NextSession]_vars

(***************************************************************************)
(* The workflow telexAgentWorkflow: the Mastra setup step, then the Telex  *)
(* integration step.  A step gets the output of the step before it as its  *)
(* input data, the first step the input of the run; a step that throws     *)
(* fails the run, and no later step runs.                                  *)
(***************************************************************************)
\* what a step's execute did: it threw error, or it returned output
threw(error) == [threw |-> TRUE, error |-> error, output |-> <<>>]
returns(output) == [threw |-> FALSE, error |-> "", output |-> <<output>>]

\* the Mastra setup step forwarding the query lower-cased
mastraSetupStepLowerCased(inputData) ==
    IF inputData = <<>>
    THEN threw("No input data found for Mastra setup step")
    ELSE LET guide == getMastraIntegrationGuide(inputData[1].query)
         IN  returns([title |-> guide.title,
                      category |-> guide.category,
                      content |-> guide.content,
                      example |-> guide.example,
                      resources |-> guide.resources,
                      query |-> toLowerCase(inputData[1].query)])

\* the Mastra setup step going through the dispatcher
mastraSetupStepRouted(inputData) ==
    IF inputData = <<>>
    THEN threw("No input data found for Mastra setup step")
    ELSE LET guide == execute([query |-> inputData[1].query, language |-> NoLanguage])
         IN  returns([title |-> guide.title,
                      category |-> guide.category,
                      content |-> guide.content,
                      example |-> guide.example,
                      resources |-> guide.resources,
                      query |-> inputData[1].query])

\* mastraSetupStep.execute
mastraSetupStep(inputData) ==
    IF inputData = <<>>
    THEN threw("No input data found for Mastra setup step")
    ELSE LET guide == getMastraIntegrationGuide(inputData[1].query)
         IN  returns([title |-> guide.title,
                      category |-> guide.category,
                      content |-> guide.content,
                      example |-> guide.example,
                      resources |-> guide.resources,
                      query |-> inputData[1].query])

\* the Telex integration step answering missing input data with the
\* overview guide
telexIntegrationStepLenient(inputData) ==
    IF inputData = <<>>
    THEN returns(telexOverviewGuide)
    ELSE returns(getTelexIntegrationGuide(inputData[1].query))

\* telexIntegrationStep.execute
telexIntegrationStep(inputData) ==
    IF inputData = <<>>
    THEN threw("No input data found for Telex integration step")
    ELSE returns(getTelexIntegrationGuide(inputData[1].query))

\* the chain with the two steps in the other order
telexAgentWorkflowSwapped == <<"telex-integration-step", "mastra-setup-step">>

\* the chain of telexAgentWorkflow: .then(mastraSetupStep).then(telexIntegrationStep)
telexAgentWorkflow == <<"mastra-setup-step", "telex-integration-step">>

\* the execute of the step with this id
executeStep(id, inputData) ==
    IF id = "mastra-setup-step" THEN mastraSetupStep(inputData)
    ELSE telexIntegrationStep(inputData)

\* the inputs of the checked runs: no input data, or a query text
WorkflowInputs == {<<>>} \cup {<<[query |-> t]>> : t \in Texts}

\* a run of the workflow is started
InitWorkflow ==
    /\ pc = "idle"
    /\ context = [query |-> "", language |-> NoLanguage]
    /\ result = <<>>
    /\ history = <<>>
    /\ wfStatus = "running"
    /\ wfInput \in WorkflowInputs
    /\ wfAt = 1
    /\ wfData = wfInput
    /\ stepLog = <<>>
    /\ NoInvocations
    /\ NoOlderCall
    /\ NoStartup

\* the run executes the next step of its chain
RunStep ==
    /\ wfStatus = "running"
    /\ wfAt <= Len(telexAgentWorkflow)
    /\ LET id == telexAgentWorkflow[wfAt]
           done == executeStep(id, wfData)
       IN  /\ stepLog' = Append(stepLog, [step |-> id,
                                           inputData |-> wfData,
                                           threw |-> done.threw,
                                           error |-> done.error,
                                           output |-> done.output])
           /\ IF done.threw
              THEN /\ wfStatus' = "failed"
                   /\ UNCHANGED <<wfAt, wfData>>
              ELSE /\ wfData' = done.output
                   /\ wfAt' = wfAt + 1
                   /\ wfStatus' = IF wfAt = Len(telexAgentWorkflow)
                                  THEN "success" ELSE "running"
    /\ UNCHANGED <<wfInput, toolVars, invocations, olderCall, startupVars>>

NextWorkflow == RunStep

SpecWorkflow == InitWorkflow /\ [][NextWorkflow]_vars

(***************************************************************************)
(* Concurrent callers.  execute is an async function without await: a call *)
(* runs its body to the end in one step and hands back a promise that is   *)
(* resolved with the guide; the caller gets the guide when its await       *)
(* resumes, after any steps of the other callers.                          *)
(***************************************************************************)
\* no caller has invoked the tool yet
InitConcurrent ==
    /\ pc = "idle"
    /\ context = [query |-> "", language |-> NoLanguage]
    /\ result = <<>>
    /\ history = <<>>
    /\ NoWorkflow
    /\ NoInvocations
    /\ NoOlderCall
    /\ NoStartup

\* caller c invokes execute: the body runs and the promise is resolved
CallExecute(c, ctx) ==
    /\ invocations[c].pc = "idle"
    /\ LET guide == execute(ctx)
       IN  /\ invocations' = [invocations EXCEPT ![c] =
                                 [pc |-> "pending", context |-> ctx,
                                  promise |-> <<guide>>, received |-> <<>>]]
           /\ history' = Append(history, [context |-> ctx, guide |-> guide])
    /\ UNCHANGED <<pc, context, result, workflowVars, olderCall, startupVars>>

\* the await of caller c resumes with the value of its promise
Resume(c) ==
    /\ invocations[c].pc = "pending"
    /\ invocations' = [invocations EXCEPT ![c].pc = "received",
                                          ![c].received = invocations[c].promise]
    /\ UNCHANGED <<toolVars, workflowVars, olderCall, startupVars>>

NextConcurrent ==
    \/ \E c \in Callers, ctx \in SessionContexts : CallExecute(c, ctx)
    \/ \E c \in Callers : Resume(c)

SpecConcurrent == InitConcurrent /\ [][NextConcurrent]_vars

(***************************************************************************)
(* The two telexGuideTool variants given the same call.                    *)
(***************************************************************************)
\* one call, with any checked input, has been made to each variant
InitVariants ==
    /\ pc = "called"
    /\ context \in Contexts
    /\ result = <<>>
    /\ history = <<>>
    /\ NoWorkflow
    /\ NoInvocations
    /\ olderCall = [pc |-> "called", result |-> <<>>]
    /\ NoStartup

\* the older execute runs to its return
ExecuteOlder ==
    /\ olderCall.pc = "called"
    /\ olderCall' = [pc |-> "returned", result |-> <<executeOlder(context)>>]
    /\ UNCHANGED <<toolVars, workflowVars, invocations, startupVars>>

NextVariants ==
    \/ Execute
    \/ ExecuteOlder

SpecVariants == InitVariants /\ [][NextVariants]_vars

(***************************************************************************)
(* The application loaded in an environment, then called.                  *)
(***************************************************************************)
\* the modules are about to be loaded, and a call will follow
InitStartup ==
    /\ pc = "loading"
    /\ context \in SessionContexts
    /\ result = <<>>
    /\ history = <<>>
    /\ NoWorkflow
    /\ NoInvocations
    /\ NoOlderCall
    /\ env \in Envs
    /\ stores = <<>>

\* the modules are loaded: the Mastra instance and the agent get their stores
Load ==
    /\ pc = "loading"
    /\ stores' = <<[storage |-> mastraStorage,
                    memory |-> telexAgentBuilderMemory(env)]>>
    /\ pc' = "called"
    /\ UNCHANGED <<context, result, history, env>>
    /\ UNCHANGED <<workflowVars, invocations, olderCall>>

NextStartup ==
    \/ Load
    \/ Execute

SpecStartup == InitStartup /\ [][NextStartup]_vars

(***************************************************************************)
(* One question put to the tool and, as input data, to a run of the        *)
(* workflow.                                                               *)
(***************************************************************************)
\* the tool is called with a question and a run is started with its text
InitToolAndWorkflow ==
    /\ pc = "called"
    /\ context \in Contexts
    /\ result = <<>>
    /\ history = <<>>
    /\ wfStatus = "running"
    /\ wfInput = <<[query |-> context.query]>>
    /\ wfAt = 1
    /\ wfData = wfInput
    /\ stepLog = <<>>
    /\ NoInvocations
    /\ NoOlderCall
    /\ NoStartup

NextToolAndWorkflow ==
    \/ Execute
    \/ RunStep

SpecToolAndWorkflow == InitToolAndWorkflow /\ [][NextToolAndWorkflow]_vars

(***************************************************************************)
(* A step of the workflow executed on its own, with or without input data. *)
(***************************************************************************)
\* one of the two steps is about to be executed with some input data
InitStep ==
    /\ pc = "idle"
    /\ context = [query |-> "", language |-> NoLanguage]
    /\ result = <<>>
    /\ history = <<>>
    /\ wfStatus = "idle"
    /\ wfInput = <<>>
    /\ wfAt \in 1..Len(telexAgentWorkflow)
    /\ wfData \in WorkflowInputs
    /\ stepLog = <<>>
    /\ NoInvocations
    /\ NoOlderCall
    /\ NoStartup

\* the step's execute runs: it throws or it returns
ExecuteStep ==
    /\ wfStatus = "idle"
    /\ stepLog = <<>>
    /\ LET id == telexAgentWorkflow[wfAt]
           done == executeStep(id, wfData)
       IN  stepLog' = <<[step |-> id,
                         inputData |-> wfData,
                         threw |-> done.threw,
                         error |-> done.error,
                         output |-> done.output]>>
    /\ UNCHANGED <<wfStatus, wfInput, wfAt, wfData>>
    /\ UNCHANGED <<toolVars, invocations, olderCall, startupVars>>

NextStep == ExecuteStep

SpecStep == InitStep /\ [][NextStep]_vars

(***************************************************************************)
(* Properties.                                                             *)
(***************************************************************************)
returned == pc = "returned"

\* the lower-cased query text and language hint of the call
text == toLowerCase(context.query)
hint == toLowerCase(languageOrEmpty(context.language))

hasProtocolKeyword == \E k \in {"a2a", "agent-to-agent", "protocol"} : includes(text, k)

A2ATitle == "Understanding the A2A (Agent-to-Agent) Protocol"

\* C1 (totality): every call returns, and what it returns is one guide with
\* a non-empty title, a non-empty content and a category of the declared set.
C1_Totality ==
    /\ returned =>
        /\ Len(result) = 1
        /\ result[1].title # ""
        /\ result[1].content # <<>>
        /\ \A i \in 1..Len(result[1].content) : result[1].content[i] # ""
        /\ result[1].category \in Categories

\* the call with the empty text and no language hint has returned
C1_Witness ==
    /\ returned
    /\ context.query = ""
    /\ context.language = NoLanguage
    /\ result[1].title # ""

\* C2 (protocol intent dominates): a text with a protocol keyword gets the
\* protocol-explanation guide, whatever the hint and the other keywords.
C2_ProtocolDominates ==
    (returned /\ hasProtocolKeyword) =>
        /\ result[1].title = A2ATitle
        /\ result[1].category = "a2a-protocol"

\* a text with a protocol and a workflow keyword, hint python, got the
\* protocol guide
C2_Witness ==
    /\ returned
    /\ includes(text, "a2a")
    /\ includes(text, "workflow")
    /\ hint = "python"
    /\ result[1].category = "a2a-protocol"

MastraSetupTitle == "Setting Up Mastra for Telex Integration"
MastraOverviewTitle == "Mastra Framework Overview"

\* an install command is among the lines kept of the guide's body
hasInstallCommand(guide) ==
    \E i \in 1..Len(guide.content) :
        \E command \in {"npm install", "pip install"} :
            /\ Len(guide.content[i]) >= Len(command)
            /\ SubSeq(guide.content[i], 1, Len(command)) = command

\* C3 (sub-branch selection for the Mastra topic): "how do I set up mastra"
\* without a hint gets the setup variant, the guide with the install
\* commands, and "what is mastra" without a hint gets the overview variant.
C3_MastraSubBranch ==
    (returned /\ context.language = NoLanguage) =>
        /\ context.query = "how do I set up mastra" =>
              /\ result[1].title = MastraSetupTitle
              /\ hasInstallCommand(result[1])
        /\ context.query = "what is mastra" =>
              /\ result[1].title = MastraOverviewTitle
              /\ ~hasInstallCommand(result[1])

PythonTitles ==
    {"Building A2A Agents with Python and FastAPI",
     "Python FastAPI + Telex Integration Overview"}

\* C4 (language-hint precedence): with the hint python, in any casing, and
\* a text without protocol keyword, a Python/FastAPI guide is returned,
\* also when the text has no language keyword.
C4_PythonHintAlone ==
    (returned /\ hint = "python" /\ ~hasProtocolKeyword) =>
        /\ result[1].title \in PythonTitles
        /\ result[1].category = "integration"

\* "how do I begin" with the hint PYTHON got a Python guide
C4_Witness ==
    /\ returned
    /\ context.query = "how do I begin"
    /\ context.language = <<"PYTHON">>
    /\ ~includes(text, "python")
    /\ result[1].title \in PythonTitles

\* the keywords the router tests on the text
RoutingKeywords ==
    {"a2a", "agent-to-agent", "protocol", "python", "fastapi", "mastra",
     "workflow", "json", "example", "connect", "integrate", "telex"}

\* the names the router tests on the language hint
LanguageNames ==
    {"python", "typescript", "javascript", "go", "java", "php", "rust", "c#", "csharp"}

DefaultTitle == "Getting Started with Telex Agent Builder"

\* C5 (default fallback): a text with no routing keyword, the empty text
\* too, and a hint that is absent or matches no language test get the
\* Getting Started guide, category general.
C5_DefaultFallback ==
    (/\ returned
     /\ \A k \in RoutingKeywords : ~includes(text, k)
     /\ \A n \in LanguageNames : ~includes(hint, n)) =>
        /\ result[1].title = DefaultTitle
        /\ result[1].category = "general"

\* an unrelated text without hint got the default guide
C5_Witness ==
    /\ returned
    /\ context.query = "xyzzy completely unrelated"
    /\ context.language = NoLanguage
    /\ result[1].category = "general"

\* the title the generic guide has for each name of the allow-list
genericTitleOf(name) ==
    CASE name = "go" -> "Building a Go Agent for Telex.im"
      [] name = "java" -> "Building a Java Agent for Telex.im"
      [] name = "php" -> "Building a Php Agent for Telex.im"
      [] name = "rust" -> "Building a Rust Agent for Telex.im"
      [] name = "c#" -> "Building a C# Agent for Telex.im"
      [] name = "csharp" -> "Building a Csharp Agent for Telex.im"

AllowList == {"go", "java", "php", "rust", "c#", "csharp"}

\* no test on the text made before the allow-list test holds
noEarlierTextMatch ==
    /\ ~hasProtocolKeyword
    /\ \A k \in {"python", "fastapi", "mastra"} : ~includes(text, k)

\* C6 (generic-language templating): with a hint that is a name of the
\* allow-list, in any casing, and no earlier branch matching, the title
\* embeds the name with its first letter capitalised and the category is
\* integration.
C6_GenericTitle ==
    (returned /\ hint \in AllowList /\ noEarlierTextMatch) =>
        /\ result[1].title = genericTitleOf(hint)
        /\ result[1].category = "integration"

\* "help" with the hint Go got the title with "Go"
C6_Witness ==
    /\ returned
    /\ context.query = "help"
    /\ context.language = <<"Go">>
    /\ result[1].title = "Building a Go Agent for Telex.im"

\* the guide is the generic guide of some language
isGenericGuide(guide) ==
    /\ Len(guide.title) >= Len("Building a  Agent for Telex.im")
    /\ SubSeq(guide.title, 1, Len("Building a ")) = "Building a "
    /\ SubSeq(guide.title, Len(guide.title) - Len(" Agent for Telex.im") + 1,
              Len(guide.title)) = " Agent for Telex.im"

\* the hint matches a member of the allow-list
hintMatchesAllowList == \E n \in AllowList : includes(hint, n)

\* no branch before the allow-list branch matches
noEarlierBranch ==
    /\ noEarlierTextMatch
    /\ \A n \in {"python", "typescript", "javascript"} : ~includes(hint, n)

C7_WitnessHint ==
    /\ returned
    /\ hint = "rust"
    /\ includes(text, "workflow")
    /\ includes(text, "telex")
    /\ isGenericGuide(result[1])

\* C8 (categories): whatever branch answered, the category of the returned
\* guide is one the output schema accepts, and so is the category of every
\* variant of every sub-dispatcher for the call's text.
C8_CategoryDeclared ==
    returned =>
        /\ result[1].category \in Categories
        /\ getPythonFastAPIGuide(context.query).category \in Categories
        /\ getMastraIntegrationGuide(context.query).category \in Categories
        /\ getTelexIntegrationGuide(context.query).category \in Categories

\* every category of the schema has been returned by some call: one witness
\* per category
C8_Witness == returned /\ result[1].category = "a2a-protocol"
C8_WitnessMastra == returned /\ result[1].category = "mastra"
C8_WitnessIntegration == returned /\ result[1].category = "integration"
C8_WitnessWorkflow == returned /\ result[1].category = "workflow"
C8_WitnessGeneral == returned /\ result[1].category = "general"

pythonIntent == includes(hint, "python") \/ includes(text, "python") \/ includes(text, "fastapi")
mastraIntent ==
    includes(hint, "typescript") \/ includes(hint, "javascript") \/ includes(text, "mastra")

\* C10 (Python outranks Mastra): a call that satisfies the Python test and
\* the Mastra test, its text without protocol keyword, gets a Python/FastAPI
\* guide, not a Mastra guide.
C10_PythonOverMastra ==
    (returned /\ pythonIntent /\ mastraIntent /\ ~hasProtocolKeyword) =>
        /\ result[1].title \in PythonTitles
        /\ result[1].category # "mastra"

\* a text with "python" and "mastra" got a Python guide
C10_Witness ==
    /\ returned
    /\ includes(text, "python")
    /\ includes(text, "mastra")
    /\ result[1].title \in PythonTitles

hasWorkflowKeyword == \E k \in {"workflow", "json", "example"} : includes(text, k)
hasIntegrationKeyword == \E k \in {"connect", "integrate", "telex"} : includes(text, k)

MastraTitles == {MastraSetupTitle, MastraOverviewTitle}
WorkflowTitle == "Sample Telex Workflow Configurations"

\* C11 (language guidance outranks the workflow example): a text with a
\* workflow keyword and no protocol keyword, in a call that matches the
\* Python branch, the Mastra branch or has a hint of the allow-list, gets the
\* language guide of the first of these that matches, never the workflow
\* example.
C11_LanguageOverWorkflow ==
    (/\ returned
     /\ hasWorkflowKeyword
     /\ ~hasProtocolKeyword
     /\ (pythonIntent \/ mastraIntent \/ hintMatchesAllowList)) =>
        /\ result[1].category # "workflow"
        /\ result[1].title # WorkflowTitle
        /\ IF pythonIntent THEN result[1].title \in PythonTitles
           ELSE IF mastraIntent THEN result[1].title \in MastraTitles
           ELSE isGenericGuide(result[1])

\* a text with a workflow keyword and the hint PHP got the generic guide
C11_Witness ==
    /\ returned
    /\ includes(text, "json")
    /\ hint = "php"
    /\ isGenericGuide(result[1])

\* a text with a workflow keyword and "mastra" got a Mastra guide
C11_WitnessMastra ==
    /\ returned
    /\ includes(text, "workflow")
    /\ includes(text, "mastra")
    /\ result[1].title \in MastraTitles

\* C12 (workflow example outranks integration): a text with a workflow
\* keyword and an integration keyword, no earlier branch matching, gets the
\* workflow-example guide, category workflow.
C12_WorkflowOverIntegration ==
    (/\ returned
     /\ hasWorkflowKeyword
     /\ hasIntegrationKeyword
     /\ noEarlierBranch
     /\ ~hintMatchesAllowList) =>
        /\ result[1].title = WorkflowTitle
        /\ result[1].category = "workflow"

\* a text with "example" and "telex" and no hint got the workflow example
C12_Witness ==
    /\ returned
    /\ includes(text, "example")
    /\ includes(text, "telex")
    /\ context.language = NoLanguage
    /\ result[1].category = "workflow"

\* C13 (Python by the text): without language hint, a text that contains
\* "python" or "fastapi" and no protocol keyword gets a Python/FastAPI guide,
\* category integration.
C13_PythonByText ==
    (/\ returned
     /\ languageOrEmpty(context.language) = ""
     /\ (includes(text, "python") \/ includes(text, "fastapi"))
     /\ ~hasProtocolKeyword) =>
        /\ result[1].title \in PythonTitles
        /\ result[1].category = "integration"

\* the README's Python question, asked without hint, got a Python guide
C13_Witness ==
    /\ returned
    /\ context.query = "I want to build an agent in Python"
    /\ context.language = NoLanguage
    /\ result[1].title \in PythonTitles

PythonSetupTitle == "Building A2A Agents with Python and FastAPI"
PythonOverviewTitle == "Python FastAPI + Telex Integration Overview"

\* the keywords of the setup variants
SetupKeywords == {"setup", "install", "initialize", "start"}

hasSetupKeyword == \E k \in SetupKeywords : includes(text, k)

\* the call was answered by the Python sub-dispatcher
pythonBranchTaken == returned /\ ~hasProtocolKeyword /\ pythonIntent

\* C15 (Python sub-dispatcher): getPythonFastAPIGuide returns the setup
\* variant exactly for the texts that contain "setup", "install",
\* "initialize" or "start", and the overview variant for every other text.
C15_PythonSubDispatcher ==
    pythonBranchTaken =>
        /\ result[1].title = (IF hasSetupKeyword THEN PythonSetupTitle
                                                 ELSE PythonOverviewTitle)
        /\ hasInstallCommand(result[1]) <=> hasSetupKeyword

\* the context with its text and its language hint lower-cased
lowerCased(ctx) ==
    [query |-> toLowerCase(ctx.query),
     language |-> IF ctx.language = NoLanguage THEN NoLanguage
                  ELSE <<toLowerCase(ctx.language[1])>>]

\* C17 (case-insensitivity): the guide returned for (text, language) is the
\* guide returned for the lower-cased text and the lower-cased language,
\* field by field, the templated title of the generic guide included.
C17_CaseInsensitive ==
    returned =>
        LET lower == execute(lowerCased(context))
        IN  /\ result[1].title = lower.title
            /\ result[1].category = lower.category
            /\ result[1].content = lower.content
            /\ result[1].example = lower.example
            /\ result[1].resources = lower.resources

\* a text and a hint with capitals got the generic guide of the lower-cased
\* hint
C17_Witness ==
    /\ returned
    /\ context.query = "Telex help"
    /\ context.language = <<"PHP">>
    /\ lowerCased(context) # context
    /\ result[1].title = "Building a Php Agent for Telex.im"

\* the places of the log where the step with this id ran
ranAt(id) == {i \in 1..Len(stepLog) : stepLog[i].step = id}

\* the places of the log where the step with this id ran and returned
returnedAt(id) == {i \in ranAt(id) : ~stepLog[i].threw}

\* the lower-cased query a step of the log was given
queryAt(i) == toLowerCase(stepLog[i].inputData[1].query)

\* C14 (Mastra sub-dispatcher): for every text, getMastraIntegrationGuide
\* returns the setup variant if the lower-cased text contains "setup",
\* "install", "initialize" or "start", else the overview variant; both have
\* category mastra.
C14_MastraSubDispatcher ==
    \A i \in returnedAt("mastra-setup-step") :
        LET guide == stepLog[i].output[1]
        IN  /\ guide.title = (IF \E k \in SetupKeywords : includes(queryAt(i), k)
                              THEN MastraSetupTitle
                              ELSE MastraOverviewTitle)
            /\ guide.category = "mastra"

\* the text "start" got the setup variant
C14_Witness ==
    /\ returnedAt("mastra-setup-step") # {}
    /\ queryAt(1) = "start"
    /\ stepLog[1].output[1].title = MastraSetupTitle

\* a text without any of the four keywords got the overview variant
C14_WitnessOverview ==
    /\ returnedAt("mastra-setup-step") # {}
    /\ queryAt(1) = "how do i set up mastra"
    /\ stepLog[1].output[1].title = MastraOverviewTitle

TelexConnectTitle == "Connecting Your Agent to Telex.im"
TelexOverviewTitle == "Telex.im Integration Overview"

\* C16 as claimed (integration sub-dispatcher, the pattern of the others):
\* getTelexIntegrationGuide returns the detailed variant if the lower-cased
\* text contains "setup", "install", "initialize" or "start", else the
\* overview variant.
C16_TelexSetupKeywords ==
    \A i \in returnedAt("telex-integration-step") :
        stepLog[i].output[1].title =
            (IF \E k \in SetupKeywords : includes(queryAt(i), k)
             THEN TelexConnectTitle
             ELSE TelexOverviewTitle)

\* the keywords of the detailed variant of getTelexIntegrationGuide
TelexKeywords == {"connect", "integrate", "deploy", "telex", "workflow"}

\* C16 as amended: getTelexIntegrationGuide returns the detailed variant if
\* the lower-cased text contains "connect", "integrate", "deploy", "telex"
\* or "workflow", else the overview variant; both have category integration.
C16_TelexSubDispatcher ==
    \A i \in returnedAt("telex-integration-step") :
        LET guide == stepLog[i].output[1]
        IN  /\ guide.title = (IF \E k \in TelexKeywords : includes(queryAt(i), k)
                              THEN TelexConnectTitle
                              ELSE TelexOverviewTitle)
            /\ guide.category = "integration"

\* the text "setup deploy" got the detailed variant, by "deploy"
C16_Witness ==
    /\ returnedAt("telex-integration-step") # {}
    /\ queryAt(2) = "setup deploy"
    /\ stepLog[2].output[1].title = TelexConnectTitle

\* the text "setup" got the overview variant
C16_WitnessOverview ==
    /\ returnedAt("telex-integration-step") # {}
    /\ queryAt(2) = "setup"
    /\ stepLog[2].output[1].title = TelexOverviewTitle

\* C18 (query propagation): in every run the Telex integration step is
\* called with exactly the query text the Mastra setup step was given, the
\* query of the run, and its guide is the guide of that query.
C18_QueryForwarded ==
    \A j \in ranAt("telex-integration-step") :
        /\ stepLog[j].inputData # <<>>
        /\ stepLog[j].inputData[1].query = wfInput[1].query
        /\ \A i \in ranAt("mastra-setup-step") :
              /\ stepLog[i].inputData = wfInput
              /\ stepLog[j].inputData[1].query = stepLog[i].inputData[1].query
        /\ ~stepLog[j].threw =>
              stepLog[j].output[1] = getTelexIntegrationGuide(wfInput[1].query)

\* a run with a query with capitals ended, both steps run
C18_Witness ==
    /\ wfStatus = "success"
    /\ wfInput = <<[query |-> "How do I connect my agent to Telex?"]>>
    /\ ranAt("mastra-setup-step") = {1}
    /\ ranAt("telex-integration-step") = {2}
    /\ stepLog[2].inputData[1].query = "How do I connect my agent to Telex?"

\* C19 (step ordering): in every run the Mastra setup step has run and
\* returned before the Telex integration step runs, the integration step
\* runs at most once, and it never runs in a run whose setup step failed.
C19_StepOrder ==
    /\ Cardinality(ranAt("telex-integration-step")) <= 1
    /\ Cardinality(ranAt("mastra-setup-step")) <= 1
    /\ \A j \in ranAt("telex-integration-step") :
          \E i \in returnedAt("mastra-setup-step") : i < j
    /\ (\E i \in ranAt("mastra-setup-step") : stepLog[i].threw) =>
          /\ ranAt("telex-integration-step") = {}
          /\ wfStatus = "failed"
    /\ wfStatus = "success" =>
          /\ returnedAt("mastra-setup-step") = {1}
          /\ returnedAt("telex-integration-step") = {2}

\* a run ended with the setup step run first and the integration step second
C19_Witness ==
    /\ wfStatus = "success"
    /\ Len(stepLog) = 2
    /\ stepLog[1].step = "mastra-setup-step"
    /\ stepLog[2].step = "telex-integration-step"

\* a run whose setup step threw has failed, the integration step not run
C19_WitnessFailed ==
    /\ wfStatus = "failed"
    /\ Len(stepLog) = 1
    /\ stepLog[1].step = "mastra-setup-step"
    /\ stepLog[1].threw

\* the guide a call with this context gets when it is the only call made
alone(ctx) == route(toLowerCase(ctx.query), toLowerCase(languageOrEmpty(ctx.language)))

\* every caller that has its guide has the guide of its own context
ownGuideReceived ==
    \A c \in Callers :
        /\ invocations[c].pc = "pending" => invocations[c].promise = <<alone(invocations[c].context)>>
        /\ invocations[c].pc = "received" => invocations[c].received = <<alone(invocations[c].context)>>

\* a step of one caller leaves what the other callers hold as it is
othersUntouched ==
    \A c \in Callers :
        invocations'[c] # invocations[c] =>
            \A d \in Callers \ {c} : invocations'[d] = invocations[d]

isCompleteLink(link) ==
    /\ DOMAIN link = {"title", "url", "description"}
    /\ Len(link.title) > 0
    /\ Len(link.url) > 0
    /\ Len(link.description) > 0

\* the resource links of a guide
linksOf(guide) == {guide.resources[i] : i \in 1..Len(guide.resources)}

\* C21 (resource links): every resource link of every guide the dispatcher
\* returns has a non-empty title, a non-empty url and a non-empty
\* description.
C21_ResourceLinks ==
    returned => \A link \in linksOf(result[1]) : isCompleteLink(link)

\* the dispatcher returned the default guide, which carries three links
C21_Witness ==
    /\ returned
    /\ result[1].title = DefaultTitle
    /\ Len(result[1].resources) = 3

\* the dispatcher returned the protocol guide with its single link
C21_WitnessProtocol ==
    /\ returned
    /\ result[1].category = "a2a-protocol"
    /\ Len(result[1].resources) = 1

\* the older variant has returned, and its guide
olderReturned == olderCall.pc = "returned"
olderGuide == olderCall.result[1]

\* the text has one of the two protocol keywords the variants are told apart by
hasA2AOrProtocol == includes(text, "a2a") \/ includes(text, "protocol")

OlderRoutingKeywords == {"mastra", "workflow", "json", "connect", "integrate", "telex"}
OlderMastraTitles == {"Setting Up Mastra Locally", "Mastra Overview"}

\* the older variant never returns the protocol category: a text with a
\* protocol keyword is routed by its other keywords, or to the default guide
\* when it has no other keyword and the hint matches no test
olderHasNoProtocolBranch ==
    olderReturned =>
        /\ olderGuide.category \in CategoriesOlder
        /\ olderGuide.category # "a2a-protocol"
        /\ (hasA2AOrProtocol /\ includes(text, "mastra")) =>
              olderGuide.title \in OlderMastraTitles
        /\ (/\ hasA2AOrProtocol
            /\ \A k \in OlderRoutingKeywords : ~includes(text, k)
            /\ hint \in {"", "ruby"}) =>
              /\ olderGuide.title = DefaultTitle
              /\ olderGuide.category = "general"

\* the older variant's guide is the generic-language guide for python
olderGuideIsGenericPython ==
    /\ olderGuide.title = "Building a python Agent for Telex.im"
    /\ olderGuide.category = "integration"

\* the richer variant returns the protocol guide for a text with a protocol
\* keyword
richerHasProtocolBranch ==
    (returned /\ hasA2AOrProtocol) =>
        /\ result[1].title = A2ATitle
        /\ result[1].category = "a2a-protocol"

\* C22 as claimed (the two variants): the older variant never returns the
\* protocol category and gives the hint python the generic-language guide,
\* whereas the richer variant returns the protocol guide for a text with
\* "a2a" or "protocol" and a Python/FastAPI guide for the hint python.
C22_VariantsDiffer ==
    /\ olderHasNoProtocolBranch
    /\ (olderReturned /\ hint = "python") => olderGuideIsGenericPython
    /\ richerHasProtocolBranch
    /\ (returned /\ hint = "python") => result[1].title \in PythonTitles

\* C22 as amended: the older variant never returns the protocol category
\* and gives the hint python the generic-language guide unless the text
\* contains "mastra", which gets a Mastra guide of the older variant; the
\* richer variant returns the protocol guide for a text with "a2a" or
\* "protocol", whatever the hint, and a Python/FastAPI guide for the hint
\* python when the text has no protocol keyword.
C22_VariantsDifferByBranch ==
    /\ olderHasNoProtocolBranch
    /\ (olderReturned /\ hint = "python") =>
          IF includes(text, "mastra")
          THEN olderGuide.title \in OlderMastraTitles
          ELSE olderGuideIsGenericPython
    /\ richerHasProtocolBranch
    /\ (returned /\ hint = "python" /\ ~hasProtocolKeyword) =>
          result[1].title \in PythonTitles

\* both variants answered a call with the hint Python and a protocol text:
\* the older one with the generic guide, the richer one with the protocol
\* guide
C22_Witness ==
    /\ returned
    /\ olderReturned
    /\ context = [query |-> "Protocol", language |-> <<"Python">>]
    /\ olderGuideIsGenericPython
    /\ result[1].category = "a2a-protocol"

\* both variants answered a call with the hint python and no keyword: the
\* older one with the generic guide, the richer one with a Python guide
C22_WitnessPython ==
    /\ returned
    /\ olderReturned
    /\ context = [query |-> "help", language |-> <<"python">>]
    /\ olderGuideIsGenericPython
    /\ result[1].title \in PythonTitles

\* both variants answered a protocol text without hint: the older one with
\* its default guide, the richer one with the protocol guide
C22_WitnessDefault ==
    /\ returned
    /\ olderReturned
    /\ context = [query |-> "A2A", language |-> NoLanguage]
    /\ olderGuide.category = "general"
    /\ result[1].category = "a2a-protocol"

\* the modules are loaded
loaded == stores # <<>>

\* the urls LibSQL keeps in memory
InMemoryUrls == {":memory:", "file::memory:"}
isInMemory(store) == store.url \in InMemoryUrls

\* C23 (storage default): loading succeeds whether or not LIBSQL_URL is set,
\* and when it is not set the store of the Mastra instance and the store of
\* the agent's memory are both in-memory.
C23_InMemoryByDefault ==
    /\ pc # "loading" => loaded
    /\ (loaded /\ env.LIBSQL_URL = <<>>) =>
          /\ isInMemory(stores[1].storage)
          /\ isInMemory(stores[1].memory)

\* the part of C23 that holds: the store of the Mastra instance is
\* in-memory, LIBSQL_URL set or not
C23_MastraStoreInMemory == loaded => isInMemory(stores[1].storage)

\* the call reaches the integration branch of the dispatcher: no test made
\* before the integration test holds, and the integration test does
reachesIntegrationBranch ==
    /\ noEarlierBranch
    /\ ~hintMatchesAllowList
    /\ ~hasWorkflowKeyword
    /\ hasIntegrationKeyword

\* C24 (the overview variant is out of the dispatcher's reach): the
\* dispatcher never returns the integration overview; a call that reaches
\* its integration branch gets the detailed variant, because each keyword of
\* the branch is also a keyword of getTelexIntegrationGuide; called directly
\* by the workflow, getTelexIntegrationGuide returns the detailed variant
\* for the same keywords and the overview only for a text without any of
\* its own keywords.
C24_OverviewOnlyDirectly ==
    /\ returned =>
          /\ result[1].title # TelexOverviewTitle
          /\ reachesIntegrationBranch => result[1].title = TelexConnectTitle
          /\ result[1].title = TelexConnectTitle => reachesIntegrationBranch
    /\ \A i \in returnedAt("telex-integration-step") :
          /\ (\E k \in {"connect", "integrate", "telex"} : includes(queryAt(i), k)) =>
                stepLog[i].output[1].title = TelexConnectTitle
          /\ stepLog[i].output[1].title = TelexOverviewTitle =>
                \A k \in TelexKeywords : ~includes(queryAt(i), k)

\* the same text without integration keyword got the default guide from the
\* dispatcher and the overview variant from the workflow's direct call
C24_Witness ==
    /\ returned
    /\ context = [query |-> "help", language |-> NoLanguage]
    /\ result[1].title = DefaultTitle
    /\ wfStatus = "success"
    /\ stepLog[2].step = "telex-integration-step"
    /\ stepLog[2].output[1].title = TelexOverviewTitle

\* a text with an integration keyword got the detailed variant from both
C24_WitnessDetailed ==
    /\ returned
    /\ context = [query |-> "How do I connect my agent to Telex?", language |-> NoLanguage]
    /\ result[1].title = TelexConnectTitle
    /\ wfStatus = "success"
    /\ stepLog[2].output[1].title = TelexConnectTitle

TelexTitles == {TelexConnectTitle, TelexOverviewTitle}

\* C25 (the workflow bypasses the router): for every query, stage one
\* returns one of the two Mastra guides, category mastra, and stage two one
\* of the two Telex integration guides, category integration, whatever the
\* dispatcher returns for the same text; stage two returns the detailed
\* variant exactly when the lower-cased query contains "connect",
\* "integrate", "deploy", "telex" or "workflow".
C25_WorkflowBypassesRouter ==
    /\ \A i \in returnedAt("mastra-setup-step") :
          /\ stepLog[i].output[1].title \in MastraTitles
          /\ stepLog[i].output[1].category = "mastra"
    /\ \A j \in returnedAt("telex-integration-step") :
          /\ stepLog[j].output[1].title \in TelexTitles
          /\ stepLog[j].output[1].category = "integration"
          /\ stepLog[j].output[1].title = TelexConnectTitle <=>
                \E k \in TelexKeywords : includes(queryAt(j), k)
    /\ wfStatus = "success" =>
          /\ returnedAt("mastra-setup-step") = {1}
          /\ returnedAt("telex-integration-step") = {2}

\* a text with a protocol keyword: the dispatcher returned the protocol
\* guide, the workflow a Mastra guide and then a Telex integration guide
C25_Witness ==
    /\ returned
    /\ context.query = "A2A"
    /\ result[1].category = "a2a-protocol"
    /\ wfStatus = "success"
    /\ stepLog[1].output[1].title = MastraOverviewTitle
    /\ stepLog[2].output[1].title = TelexOverviewTitle

\* a text with a Python keyword and "deploy": the dispatcher returned a
\* Python guide, the workflow a Mastra guide and the detailed Telex guide
C25_WitnessPython ==
    /\ returned
    /\ includes(text, "python")
    /\ includes(text, "deploy")
    /\ result[1].title \in PythonTitles
    /\ wfStatus = "success"
    /\ stepLog[1].output[1].category = "mastra"
    /\ stepLog[2].output[1].title = TelexConnectTitle

\* the hints that contain a name of the allow-list without being one
ContainingHints == {"golang", "django"}

\* the title of the generic guide for such a hint
containingTitleOf(h) ==
    CASE h = "golang" -> "Building a Golang Agent for Telex.im"
      [] h = "django" -> "Building a Django Agent for Telex.im"

\* C26 (substring match of the hint): a hint that contains a name of the
\* allow-list without being one, such as golang or django, gets the generic
\* guide when no earlier branch matches, and the title embeds the whole
\* lower-cased hint with its first character upper-cased, not the name of
\* the allow-list that matched.
C26_HintBySubstring ==
    (/\ returned
     /\ noEarlierBranch
     /\ hintMatchesAllowList
     /\ hint \notin AllowList) =>
        /\ hint \in ContainingHints
        /\ isGenericGuide(result[1])
        /\ result[1].category = "integration"
        /\ result[1].title = containingTitleOf(hint)
        /\ \A n \in AllowList : result[1].title # genericTitleOf(n)
        /\ result[1].content[1] = "Build an A2A-compatible agent in " \o hint
              \o " by implementing a REST API that follows the A2A protocol."

\* "help" with the hint GoLang got the title with "Golang"
C26_Witness ==
    /\ returned
    /\ context = [query |-> "help", language |-> <<"GoLang">>]
    /\ result[1].title = "Building a Golang Agent for Telex.im"

\* a workflow text with the hint Django got the title with "Django"
C26_WitnessDjango ==
    /\ returned
    /\ context = [query |-> "Show me a workflow example", language |-> <<"Django">>]
    /\ result[1].title = "Building a Django Agent for Telex.im"

\* the hint names JavaScript or TypeScript
scriptHint == includes(hint, "javascript") \/ includes(hint, "typescript")

\* the text has no protocol keyword and no Python keyword
freeOfProtocolAndPython ==
    /\ ~hasProtocolKeyword
    /\ ~includes(text, "python")
    /\ ~includes(text, "fastapi")

C27_WitnessJava ==
    /\ returned
    /\ context = [query |-> "Show me a workflow example", language |-> <<"java">>]
    /\ result[1].title = "Building a Java Agent for Telex.im"

\* the error a step throws names the step
errorNaming(id) ==
    CASE id = "mastra-setup-step" -> "No input data found for Mastra setup step"
      [] id = "telex-integration-step" -> "No input data found for Telex integration step"

\* C28 (missing input): a workflow step, the Mastra setup step or the Telex
\* integration step, executed with no input data throws an error that names
\* the step and returns no guide; executed with input data it does not
\* throw, whatever the query string is, and returns a guide.
C28_MissingInput ==
    \A i \in 1..Len(stepLog) :
        IF stepLog[i].inputData = <<>>
        THEN /\ stepLog[i].threw
             /\ stepLog[i].error = errorNaming(stepLog[i].step)
             /\ stepLog[i].output = <<>>
        ELSE /\ ~stepLog[i].threw
             /\ stepLog[i].error = ""
             /\ Len(stepLog[i].output) = 1
             /\ stepLog[i].output[1].title # ""
             /\ stepLog[i].output[1].category \in {"mastra", "integration"}

\* the Telex integration step, executed without input data, threw
C28_Witness ==
    /\ Len(stepLog) = 1
    /\ stepLog[1].step = "telex-integration-step"
    /\ stepLog[1].inputData = <<>>
    /\ stepLog[1].threw

\* the Mastra setup step, executed without input data, threw
C28_WitnessSetup ==
    /\ Len(stepLog) = 1
    /\ stepLog[1].step = "mastra-setup-step"
    /\ stepLog[1].inputData = <<>>
    /\ stepLog[1].threw

\* the Telex integration step, executed with the empty query, returned
C28_WitnessEmptyQuery ==
    /\ Len(stepLog) = 1
    /\ stepLog[1].step = "telex-integration-step"
    /\ stepLog[1].inputData = <<[query |-> ""]>>
    /\ ~stepLog[1].threw
    /\ stepLog[1].output[1].title = TelexOverviewTitle

====
